---- MODULE Spec2Model ----
(***************************************************************************)
(* The research workflow of researcher-smolagent:                         *)
(* orchestration/workflow.py, class ResearchOrchestrator.                  *)
(*                                                                         *)
(* Scores are floats in the source; here they are integers in tenths       *)
(* (4.2 is 42, the threshold 3.0 is 30), which keeps every comparison the  *)
(* source makes.  A review text is a sequence of tokens, one per line of   *)
(* the text that a regular expression of the source can match.  A text     *)
(* returned by a reviewer carries who wrote it and which artifact it was   *)
(* written about; an artifact carries the producer invocation it came      *)
(* from.                                                                   *)
(*                                                                         *)
(* Specifications:                                                         *)
(*   Spec, FairSpec  execute_research                                      *)
(*   SpecAccept      _evaluate_acceptance on a list of scores              *)
(*   SpecExtract     one Review made from one review text                  *)
(*   SpecScrape      scrape_webpage and its cache, tools.py                *)
(*   SpecMain        the chat handler main, chainlit_app.py                *)
(***************************************************************************)
EXTENDS Integers, Sequences, FiniteSets, TLC

\* ---------------------------------------------------------------- bounds
MaxCouncil == 4
MaxIterations == 2
MaxScores == 4

\* ------------------------------------------------------ program constants
PassingScore == 30
PassingQuorum == 2
ScoreCap == 50
DefaultReviews == 3
DefaultMaxIterations == 2

\* ------------------------------------------------------------ review text
\* "Overall Score: v / 5" (slash) or "Overall Score: v"
OverallScoreLine(v, slash) ==
    [k |-> "OverallScore", v |-> v, slash |-> slash, w |-> "", c |-> "",
     lc |-> FALSE]
\* "Score: v/5" (slash) or "Score: v", not preceded by "Overall "
ScoreLine(v, slash) ==
    [k |-> "Score", v |-> v, slash |-> slash, w |-> "", c |-> "",
     lc |-> FALSE]
\* "Recommendation: w"
RecommendationLine(w) ==
    [k |-> "Recommendation", v |-> 0, slash |-> FALSE, w |-> w, c |-> "",
     lc |-> FALSE]
\* "## w" followed by the section's content c, stripped ("": no content)
SectionLine(w, c) ==
    [k |-> "Section", v |-> 0, slash |-> FALSE, w |-> w, c |-> c,
     lc |-> FALSE]
\* any other line
ProseLine ==
    [k |-> "Prose", v |-> 0, slash |-> FALSE, w |-> "", c |-> "", lc |-> FALSE]
\* the line t written in lower case: "overall score: 4 / 5",
\* "recommendation: accept"
LowerCase(t) == [t EXCEPT !.lc = TRUE]

\* re.search: the leftmost of the positions hits where the pattern matches,
\* 0 if there is none
FirstMatch(hits) ==
    IF hits = {} THEN 0 ELSE CHOOSE j \in hits : \A h \in hits : j <= h

\* variant: the cap forgotten
Min_uncapped(a, b) == a

Min(a, b) == IF a <= b THEN a ELSE b

\* (\d+\.?\d*): digits follow the label; a sign does not match. Every
\* pattern is searched with re.IGNORECASE, so the case of the line is not
\* looked at.
Digits(t) == t.v >= 0

\* r'Overall Score:\s*(\d+\.?\d*)\s*/\s*5'
Pattern1(t) == t.k = "OverallScore" /\ Digits(t) /\ t.slash
\* r'Overall Score:\s*(\d+\.?\d*)'
Pattern2(t) == t.k = "OverallScore" /\ Digits(t)
\* r'Score:\s*(\d+\.?\d*)\s*/\s*5' ("Overall Score: 4 / 5" contains "Score: 4 / 5")
Pattern3(t) == t.k \in {"OverallScore", "Score"} /\ Digits(t) /\ t.slash

\* variant: "Score: X/5" tried before "Overall Score: X"
extract_score_generic_first(body) ==
    LET m1 == FirstMatch({j \in DOMAIN body : Pattern1(body[j])})
        m2 == FirstMatch({j \in DOMAIN body : Pattern2(body[j])})
        m3 == FirstMatch({j \in DOMAIN body : Pattern3(body[j])})
    IN  IF m1 # 0 THEN Min(body[m1].v, ScoreCap)
        ELSE IF m3 # 0 THEN Min(body[m3].v, ScoreCap)
        ELSE IF m2 # 0 THEN Min(body[m2].v, ScoreCap)
        ELSE 0

\* the patterns in the order of the list, each searched in the whole text
extract_score(body) ==
    LET m1 == FirstMatch({j \in DOMAIN body : Pattern1(body[j])})
        m2 == FirstMatch({j \in DOMAIN body : Pattern2(body[j])})
        m3 == FirstMatch({j \in DOMAIN body : Pattern3(body[j])})
    IN  IF m1 # 0 THEN Min(body[m1].v, ScoreCap)
        ELSE IF m2 # 0 THEN Min(body[m2].v, ScoreCap)
        ELSE IF m3 # 0 THEN Min(body[m3].v, ScoreCap)
        ELSE 0

\* variant: the search without re.IGNORECASE
IsAccept_case_sensitive(t) == t.k = "Recommendation" /\ t.w = "ACCEPT" /\ ~t.lc

\* r'Recommendation:\s*ACCEPT' and r'Recommendation:\s*REVISE', searched with
\* re.IGNORECASE: the case of the line is not looked at
IsAccept(t) == t.k = "Recommendation" /\ t.w = "ACCEPT"
IsRevise(t) == t.k = "Recommendation" /\ t.w = "REVISE"

extract_recommendation(body) ==
    IF FirstMatch({j \in DOMAIN body : IsAccept(body[j])}) # 0 THEN "ACCEPT"
    ELSE IF FirstMatch({j \in DOMAIN body : IsRevise(body[j])}) # 0 THEN "REVISE"
    ELSE "UNKNOWN"

\* rf'##?\s*{section_name}:?\s*(.*?)(?=##|\Z)', stripped; "" when absent
extract_section(body, section_name) ==
    LET IsHeader(t) == t.k = "Section" /\ t.w = section_name
        m == FirstMatch({j \in DOMAIN body : IsHeader(body[j])})
    IN  IF m # 0 THEN body[m].c ELSE ""

\* ----------------------------------------------------------------- council
reviewer_names ==
    << "Dr. Sarah Chen (Methodology)",
       "Prof. James Rodriguez (Comprehensiveness)",
       "Dr. Emily Thompson (Clarity)" >>

DefaultNames == << "Reviewer 1", "Reviewer 2", "Reviewer 3" >>

\* the first branch of the if/elif chain of _synthesize_feedback that the
\* name enters: '"Methodology" in reviewer_name', ...
Category(name) ==
    IF name = reviewer_names[1] THEN "Methodology"
    ELSE IF name = reviewer_names[2] THEN "Comprehensiveness"
    ELSE IF name = reviewer_names[3] THEN "Clarity"
    ELSE "none"

\* what the reviewers of the model answer
EdgeReview == << OverallScoreLine(30, TRUE), RecommendationLine("ACCEPT") >>
LowReview ==
    << ScoreLine(20, TRUE), RecommendationLine("REVISE"),
       SectionLine("Areas for Improvement", "more sources") >>

ReviewBodies == {EdgeReview, LowReview}

\* the text agent i returns for artifact a
ReviewText(i, a, body) == [from |-> i, of |-> a.inv, body |-> body]
\* f'Error: {str(e)}': the text of an exception, the response of no agent
ErrorText == [from |-> 0, of |-> 0, body |-> << ProseLine >>]

\* ---------------------------------------------------------------- artifacts
NoReport == [kind |-> "None", inv |-> 0]
Report(n) == [kind |-> "report", inv |-> n]
\* f"Error conducting research: {str(e)}" / f"Error revising research: ..."
ErrorReport(n) ==
    [kind |-> IF n = 1 THEN "Error conducting research"
                      ELSE "Error revising research",
     inv |-> n]

\* ------------------------------------------------------------------ feedback
RECURSIVE FeedbackOf(_, _)
FeedbackOf(rs, cat) ==
    IF rs = <<>> THEN <<>>
    ELSE (IF Category(rs[1].reviewer) = cat
          THEN << extract_section(rs[1].review_text.body, "Areas for Improvement") >>
          ELSE <<>>) \o FeedbackOf(Tail(rs), cat)

PriorityOf(cat) ==
    IF cat = "Methodology" THEN "CRITICAL: Address methodology issues"
    ELSE IF cat = "Comprehensiveness" THEN "CRITICAL: Expand topic coverage"
    ELSE "CRITICAL: Improve clarity and organization"

RECURSIVE PrioritiesOf(_)
PrioritiesOf(rs) ==
    IF rs = <<>> THEN <<>>
    ELSE (IF Category(rs[1].reviewer) # "none" /\ rs[1].score < PassingScore
          THEN << PriorityOf(Category(rs[1].reviewer)) >>
          ELSE <<>>) \o PrioritiesOf(Tail(rs))

synthesize_feedback(review_round) ==
    [scores |-> review_round.scores,
     methodology_feedback |-> FeedbackOf(review_round.reviews, "Methodology"),
     comprehensiveness_feedback |->
         FeedbackOf(review_round.reviews, "Comprehensiveness"),
     clarity_feedback |-> FeedbackOf(review_round.reviews, "Clarity"),
     priorities |-> PrioritiesOf(review_round.reviews)]

\* "\n".join(lines) if lines else "None"; a text is the sequence of its lines
JoinOrNone(lines) == IF lines # <<>> THEN lines ELSE << "None" >>

create_revision_prompt(query, original_report, feedback) ==
    [kind |-> "revision",
     query |-> query,
     scores |-> feedback.scores,
     priorities_text |-> feedback.priorities,
     methodology_text |-> JoinOrNone(feedback.methodology_feedback),
     comprehensiveness_text |-> JoinOrNone(feedback.comprehensiveness_feedback),
     clarity_text |-> JoinOrNone(feedback.clarity_feedback)]

\* the prompt of the initial research is the query itself
QueryPrompt(query) ==
    [kind |-> "query",
     query |-> query,
     scores |-> <<>>,
     priorities_text |-> <<>>,
     methodology_text |-> <<>>,
     comprehensiveness_text |-> <<>>,
     clarity_text |-> <<>>]

\* ------------------------------------------------------------- acceptance
RECURSIVE CountPassing(_)
CountPassing(s) ==
    IF s = <<>> THEN 0
    ELSE (IF s[1] >= PassingScore THEN 1 ELSE 0) + CountPassing(Tail(s))

\* variant: a quorum of 1
evaluate_acceptance_quorum1(s) == CountPassing(s) >= 1

evaluate_acceptance(s) == CountPassing(s) >= PassingQuorum


\* --------------------------------------------------------------------- state
VARIABLES
    council,          \* len(self.council): the number of council agents
    max_iterations,   \* self.max_iterations
    pc,               \* where execute_research, or main, stands
    iteration,        \* the local iteration of execute_research, or of main
    research_report,  \* the local research_report
    all_reviews,      \* the local all_reviews, the round history
    scores,           \* the local scores (unbound, here <<>>, before the first round)
    producer,         \* the researcher.run thread: its state and its prompt
    tasks,            \* the agent.run threads of the round under review
    orphans,          \* per round: how many of its threads gather left running
    result,           \* what execute_research returned
    arg_scores,       \* the argument of a call of _evaluate_acceptance
    ret_accept,       \* whether that call returned, and what
    arg_text,         \* the review text a Review is made from
    ret_review,       \* the Review made from it
    cache,            \* the files of CACHE_DIR written by scrape_webpage, by URL
    scrape_arg,       \* the arguments of the last call of scrape_webpage
    scrape_ret,       \* what that call returned
    main_reviews,     \* the local reviews of main
    messages          \* the messages main has sent to the chat

vars ==
    << council, max_iterations, pc, iteration, research_report, all_reviews,
       scores, producer, tasks, orphans, result, arg_scores, ret_accept,
       arg_text, ret_review, cache, scrape_arg, scrape_ret, main_reviews,
       messages >>

workflow_vars ==
    << council, max_iterations, pc, iteration, research_report, all_reviews,
       scores, producer, tasks, orphans, result >>

accept_vars == << arg_scores, ret_accept >>
extract_vars == << arg_text, ret_review >>
scrape_vars == << cache, scrape_arg, scrape_ret >>
main_vars == << main_reviews, messages >>
\* what execute_research leaves alone
aside_vars == << accept_vars, extract_vars, scrape_vars, main_vars >>

Query == "query"
NotReturned == [returned |-> FALSE, value |-> FALSE]
NoResult == [status |-> "none"]
IdleProducer == [st |-> "idle", prompt |-> QueryPrompt(Query)]
Agents == 1..council

\* no Review made yet
NoReview ==
    [reviewer |-> "none", review_text |-> ErrorText, score |-> 0,
     recommendation |-> "none"]
\* the pages of the model, and what a cache file holds
URLs == {"u1", "u2", "u3"}
NoEntry == [hit |-> FALSE, links |-> <<>>]
NoCall == [url |-> "none", extract_links |-> FALSE]
NoScrape == [status |-> "none", links |-> <<>>]

\* the variables of the other entry points, before they are called
ExtractIdle == arg_text = <<>> /\ ret_review = NoReview
ScrapeIdle ==
    /\ cache = [u \in URLs |-> NoEntry]
    /\ scrape_arg = NoCall
    /\ scrape_ret = NoScrape
MainIdle == main_reviews = <<>> /\ messages = <<>>
AcceptIdle == arg_scores = <<>> /\ ret_accept = NotReturned
\* execute_research not called
WorkflowIdle ==
    /\ council = DefaultReviews
    /\ max_iterations = DefaultMaxIterations
    /\ pc = "not called"
    /\ iteration = 0
    /\ research_report = NoReport
    /\ all_reviews = <<>>
    /\ scores = <<>>
    /\ producer = IdleProducer
    /\ tasks = <<>>
    /\ orphans = <<>>
    /\ result = NoResult

\* the state after ResearchOrchestrator(researcher, council_agents), with
\* max_iterations set by the caller, at the call of execute_research
Init ==
    /\ council \in 1..MaxCouncil
    /\ max_iterations \in 1..MaxIterations
    /\ pc = "loop"
    /\ iteration = 0
    /\ research_report = NoReport
    /\ all_reviews = <<>>
    /\ scores = <<>>
    /\ producer = IdleProducer
    /\ tasks = <<>>
    /\ orphans = <<>>
    /\ result = NoResult
    /\ arg_scores = <<>>
    /\ ret_accept = NotReturned
    /\ ExtractIdle
    /\ ScrapeIdle
    /\ MainIdle

\* ------------------------------------------------------------ execute_research
\* the return after the loop; scores is bound by the first round
FallThroughResult ==
    IF all_reviews = <<>>
    THEN [status |-> "UnboundLocalError"]
    ELSE [status |-> "completed_max_iterations",
          research_report |-> research_report,
          all_reviews |-> all_reviews,
          iterations |-> iteration,
          final_scores |-> scores]

\* the while test and phase 1 up to the suspension in asyncio.to_thread
LoopTest ==
    /\ pc = "loop"
    /\ IF iteration < max_iterations
       THEN /\ producer' =
                  [st |-> "running",
                   prompt |->
                       IF iteration = 0
                       THEN QueryPrompt(Query)
                       ELSE create_revision_prompt(
                                Query, research_report,
                                synthesize_feedback(all_reviews[Len(all_reviews)]))]
            /\ pc' = "producing"
            /\ result' = result
       ELSE /\ result' = FallThroughResult
            /\ pc' = "returned"
            /\ producer' = producer
    /\ UNCHANGED << council, max_iterations, iteration, research_report,
                    all_reviews, scores, tasks, orphans, aside_vars >>

\* review_tasks and the suspension in asyncio.gather: one thread per agent,
\* each given the report
StartReviews(report) ==
    [i \in Agents |-> [st |-> "running", arg |-> report, out |-> ErrorText]]

\* researcher.run returns: _conduct_research / _revise_research return the
\* report, and phase 2 starts
ProducerReturn ==
    /\ pc = "producing"
    /\ producer.st = "running"
    /\ producer' = [producer EXCEPT !.st = "idle"]
    /\ research_report' = Report(iteration + 1)
    /\ tasks' = StartReviews(research_report')
    /\ pc' = "reviewing"
    /\ UNCHANGED << council, max_iterations, iteration, all_reviews, scores,
                    orphans, result, aside_vars >>

\* researcher.run raises: the except clause returns the error text as the
\* report, and phase 2 starts
ProducerRaise ==
    /\ pc = "producing"
    /\ producer.st = "running"
    /\ producer' = [producer EXCEPT !.st = "raised"]
    /\ research_report' = ErrorReport(iteration + 1)
    /\ tasks' = StartReviews(research_report')
    /\ pc' = "reviewing"
    /\ UNCHANGED << council, max_iterations, iteration, all_reviews, scores,
                    orphans, result, aside_vars >>

\* agent.run of council agent i returns a review text
ReviewerReturn(i, body) ==
    /\ i \in DOMAIN tasks
    /\ tasks[i].st = "running"
    /\ tasks' = [tasks EXCEPT ![i].st = "done",
                              ![i].out = ReviewText(i, tasks[i].arg, body)]
    /\ UNCHANGED << council, max_iterations, pc, iteration, research_report,
                    all_reviews, scores, producer, orphans, result,
                    aside_vars >>

\* agent.run of council agent i raises
ReviewerRaise(i) ==
    /\ i \in DOMAIN tasks
    /\ tasks[i].st = "running"
    /\ tasks' = [tasks EXCEPT ![i].st = "raised"]
    /\ UNCHANGED << council, max_iterations, pc, iteration, research_report,
                    all_reviews, scores, producer, orphans, result,
                    aside_vars >>

\* a thread that gather no longer waits for ends; what it returns or raises
\* is dropped
OrphanEnds(r) ==
    /\ r \in DOMAIN orphans
    /\ orphans[r] > 0
    /\ orphans' = [orphans EXCEPT ![r] = @ - 1]
    /\ UNCHANGED << council, max_iterations, pc, iteration, research_report,
                    all_reviews, scores, producer, tasks, result,
                    aside_vars >>

\* the list of the except clause of _parallel_council_review
DefaultReviewList ==
    [i \in 1..DefaultReviews |->
        [reviewer |-> DefaultNames[i],
         review_text |-> ErrorText,
         score |-> 0,
         recommendation |-> "ERROR"]]

ParsedReview(i, text) ==
    [reviewer |-> reviewer_names[i],
     review_text |-> text,
     score |-> extract_score(text.body),
     recommendation |-> extract_recommendation(text.body)]

\* the loop over enumerate(review_texts): reviewer_names[i] raises IndexError
\* for a fourth text, inside the try
ParsedReviewList(texts) ==
    IF Len(texts) > Len(reviewer_names)
    THEN DefaultReviewList
    ELSE [i \in 1..Len(texts) |-> ParsedReview(i, texts[i])]

ScoresOf(reviews) == [i \in 1..Len(reviews) |-> reviews[i].score]

\* variant: the 0-based iteration as the index of the Round
RoundOf_zero_based(reviews) ==
    [iteration |-> iteration,
     reviews |-> reviews,
     scores |-> ScoresOf(reviews)]

\* the dictionary appended to all_reviews
RoundOf(reviews) ==
    [iteration |-> iteration + 1,
     reviews |-> reviews,
     scores |-> ScoresOf(reviews)]

\* variant: the history replaced by the new Round
RecordRound_overwrite(reviews) ==
    /\ scores' = ScoresOf(reviews)
    /\ all_reviews' = << RoundOf(reviews) >>
    /\ pc' = "deciding"

\* scores and the Round appended to the history
RecordRound(reviews) ==
    /\ scores' = ScoresOf(reviews)
    /\ all_reviews' = Append(all_reviews, RoundOf(reviews))
    /\ pc' = "deciding"

\* variant: gather returns at the first text
AllReturned_first == \E i \in Agents : tasks[i].st = "done"

\* await asyncio.gather(*review_tasks) returns when every thread has returned
AllReturned == \A i \in Agents : tasks[i].st = "done"

\* asyncio.gather returns the texts of all agents, in the order of review_tasks
GatherReturn ==
    /\ pc = "reviewing"
    /\ AllReturned
    /\ RecordRound(ParsedReviewList([i \in Agents |-> tasks[i].out]))
    /\ orphans' = Append(orphans, 0)
    /\ UNCHANGED << council, max_iterations, iteration, research_report,
                    producer, tasks, result, aside_vars >>

\* asyncio.gather raises the exception of an agent that raised, without
\* waiting for the others, whose threads run on
GatherRaise ==
    /\ pc = "reviewing"
    /\ \E j \in Agents : tasks[j].st = "raised"
    /\ RecordRound(DefaultReviewList)
    /\ orphans' =
          Append(orphans, Cardinality({i \in Agents : tasks[i].st = "running"}))
    /\ tasks' = [i \in Agents |->
                    IF tasks[i].st = "running"
                    THEN [tasks[i] EXCEPT !.st = "left"]
                    ELSE tasks[i]]
    /\ UNCHANGED << council, max_iterations, iteration, research_report,
                    producer, result, aside_vars >>

\* variant: the last iteration taken one too early
LastIteration_early == iteration = max_iterations - 2

\* variant: the last iteration taken one too late
LastIteration_late == iteration = max_iterations

\* iteration == self.max_iterations - 1
LastIteration == iteration = max_iterations - 1

\* variant: the scores of the first Round as final_scores
ReturnValue_first_scores(accept) ==
    [status |-> IF accept THEN "accepted" ELSE "completed_max_iterations",
     research_report |-> research_report,
     all_reviews |-> all_reviews,
     iterations |-> iteration + 1,
     final_scores |-> all_reviews[1].scores]

\* variant: the 0-based iteration as iterations
ReturnValue_zero_based(accept) ==
    [status |-> IF accept THEN "accepted" ELSE "completed_max_iterations",
     research_report |-> research_report,
     all_reviews |-> all_reviews,
     iterations |-> iteration,
     final_scores |-> scores]

\* variant: the status of the accepting return in both returns
ReturnValue_always_accepted(accept) ==
    [status |-> "accepted",
     research_report |-> research_report,
     all_reviews |-> all_reviews,
     iterations |-> iteration + 1,
     final_scores |-> scores]

\* the dictionary returned inside the loop
ReturnValue(accept) ==
    [status |-> IF accept THEN "accepted" ELSE "completed_max_iterations",
     research_report |-> research_report,
     all_reviews |-> all_reviews,
     iterations |-> iteration + 1,
     final_scores |-> scores]

\* variant: the increment forgotten
NextIteration_stuck == iteration

\* iteration += 1
NextIteration == iteration + 1

\* phase 3: the decision, and the return or the next iteration
Decide ==
    /\ pc = "deciding"
    /\ LET accept == evaluate_acceptance(scores)
       IN  IF accept \/ LastIteration
           THEN /\ result' = ReturnValue(accept)
                /\ pc' = "returned"
                /\ iteration' = iteration
           ELSE /\ iteration' = NextIteration
                /\ pc' = "loop"
                /\ result' = result
    /\ UNCHANGED << council, max_iterations, research_report, all_reviews,
                    scores, producer, tasks, orphans, aside_vars >>

Next ==
    \/ LoopTest
    \/ ProducerReturn
    \/ ProducerRaise
    \/ \E i \in Agents, body \in ReviewBodies : ReviewerReturn(i, body)
    \/ \E i \in Agents : ReviewerRaise(i)
    \/ \E r \in DOMAIN orphans : OrphanEnds(r)
    \/ GatherReturn
    \/ GatherRaise
    \/ Decide

Spec == Init /\ [][Next]_vars

\* every call of researcher.run and of agent.run returns or raises, and the
\* event loop resumes a coroutine whose await has resolved
FairSpec == Spec /\ WF_vars(Next)

\* ------------------------------------------- _evaluate_acceptance on its own
ScoreValues == {0, 29, 30, 31, 50}

ScoreLists == UNION {[1..n -> ScoreValues] : n \in 0..MaxScores}

InitAccept ==
    /\ arg_scores \in ScoreLists
    /\ ret_accept = NotReturned
    /\ council = DefaultReviews
    /\ max_iterations = DefaultMaxIterations
    /\ pc = "not called"
    /\ iteration = 0
    /\ research_report = NoReport
    /\ all_reviews = <<>>
    /\ scores = <<>>
    /\ producer = IdleProducer
    /\ tasks = <<>>
    /\ orphans = <<>>
    /\ result = NoResult
    /\ ExtractIdle
    /\ ScrapeIdle
    /\ MainIdle

CallEvaluateAcceptance ==
    /\ ~ret_accept.returned
    /\ ret_accept' = [returned |-> TRUE, value |-> evaluate_acceptance(arg_scores)]
    /\ UNCHANGED << arg_scores, workflow_vars, extract_vars, scrape_vars,
                    main_vars >>

NextAccept == CallEvaluateAcceptance

SpecAccept == InitAccept /\ [][NextAccept]_vars


\* ------------------------------------------- a Review made from one text
MaxLines == 2

\* the lines a review text of the model is made of
TextLines ==
    { OverallScoreLine(42, TRUE),              \* "Overall Score: 4.2 / 5"
      OverallScoreLine(30, FALSE),             \* "Overall Score: 3"
      LowerCase(OverallScoreLine(20, TRUE)),   \* "overall score: 2 / 5"
      ScoreLine(90, TRUE),                     \* "Score: 9/5"
      ScoreLine(40, FALSE),                    \* "Score: 4"
      ScoreLine(-30, TRUE),                    \* "Score: -3/5"
      RecommendationLine("ACCEPT"),            \* "Recommendation: ACCEPT"
      RecommendationLine("REVISE"),            \* "Recommendation: REVISE"
      LowerCase(RecommendationLine("ACCEPT")), \* "recommendation: accept"
      LowerCase(RecommendationLine("REVISE")), \* "recommendation: revise"
      RecommendationLine("ERROR"),             \* "Recommendation: ERROR"
      ProseLine }                              \* "no score here"

ReviewTexts == UNION {[1..n -> TextLines] : n \in 0..MaxLines}

InitExtract ==
    /\ arg_text \in ReviewTexts
    /\ ret_review = NoReview
    /\ WorkflowIdle
    /\ AcceptIdle
    /\ ScrapeIdle
    /\ MainIdle

\* the body of the loop over enumerate(review_texts) for the text of
\* reviewer i
ParseReview(i) ==
    /\ ret_review = NoReview
    /\ ret_review' = ParsedReview(i, ReviewText(i, Report(1), arg_text))
    /\ UNCHANGED << arg_text, workflow_vars, accept_vars, scrape_vars,
                    main_vars >>

\* the except clause: the text is dropped and the Review at position i is
\* the default one
SentinelReview(i) ==
    /\ ret_review = NoReview
    /\ ret_review' = DefaultReviewList[i]
    /\ UNCHANGED << arg_text, workflow_vars, accept_vars, scrape_vars,
                    main_vars >>

NextExtract ==
    \/ \E i \in DOMAIN reviewer_names : ParseReview(i)
    \/ \E i \in 1..DefaultReviews : SentinelReview(i)

SpecExtract == InitExtract /\ [][NextExtract]_vars

\* ------------------------------------------------ scrape_webpage, tools.py
\* links[:20]
LinkLimit == 20

Href(scheme, path) == [scheme |-> scheme, path |-> path]

\* the <a href=...> elements of the page at url, in document order
Page(url) ==
    IF url = "u1"
    THEN << Href("http", "a"), Href("relative", "b"), Href("https", "c") >>
    ELSE IF url = "u2" THEN <<>>
    ELSE << Href("mailto", "d"), Href("http", "e") >>

\* href.startswith('http')
StartsWithHttp(href) == href.scheme \in {"http", "https"}

\* the loop over soup.find_all('a', href=True), and links[:20]
ExtractLinks(page) ==
    LET links == SelectSeq(page, StartsWithHttp)
    IN  SubSeq(links, 1, Min(Len(links), LinkLimit))

\* the dictionary built from a fetched page
ScrapeResult(url, extract_links) ==
    [status |-> "ok",
     links |-> IF extract_links THEN ExtractLinks(Page(url)) ELSE <<>>]

\* the dictionary of the except clause
ScrapeError == [status |-> "error", links |-> <<>>]

InitScrape ==
    /\ ScrapeIdle
    /\ WorkflowIdle
    /\ AcceptIdle
    /\ ExtractIdle
    /\ MainIdle

\* one call of scrape_webpage(url, extract_links): the cache file of
\* f"scrape_{url}" is returned if it is fresh; otherwise the page is fetched
\* (fetch_ok: requests.get and raise_for_status do not raise), and the result
\* is saved (save_ok: _save_to_cache writes the file) and returned
scrape_webpage(url, extract_links, fetch_ok, save_ok) ==
    /\ scrape_arg' = [url |-> url, extract_links |-> extract_links]
    /\ IF cache[url].hit
       THEN /\ scrape_ret' = [status |-> "ok", links |-> cache[url].links]
            /\ cache' = cache
       ELSE IF ~fetch_ok
       THEN /\ scrape_ret' = ScrapeError
            /\ cache' = cache
       ELSE /\ scrape_ret' = ScrapeResult(url, extract_links)
            /\ cache' =
                  IF save_ok
                  THEN [cache EXCEPT ![url] =
                           [hit |-> TRUE,
                            links |-> ScrapeResult(url, extract_links).links]]
                  ELSE cache
    /\ UNCHANGED << workflow_vars, accept_vars, extract_vars, main_vars >>

\* the cache file of url becomes older than max_age_hours (7 days):
\* _load_from_cache returns None for it, as for a missing file
CacheExpires(url) ==
    /\ cache[url].hit
    /\ cache' = [cache EXCEPT ![url] = NoEntry]
    /\ UNCHANGED << scrape_arg, scrape_ret, workflow_vars, accept_vars,
                    extract_vars, main_vars >>

NextScrape ==
    \/ \E url \in URLs, extract_links \in BOOLEAN, fetch_ok \in BOOLEAN,
          save_ok \in BOOLEAN :
          scrape_webpage(url, extract_links, fetch_ok, save_ok)
    \/ \E url \in URLs : CacheExpires(url)

SpecScrape == InitScrape /\ [][NextScrape]_vars

\* ------------------------------------------- the chat handler, chainlit_app
\* while iteration < 2
MainMaxIterations == 2

main_loop_test(it) == it < MainMaxIterations

\* passing = sum(1 for score in scores if score >= 3.0); accept = passing >= 2
main_accept(list) == Cardinality({i \in DOMAIN list : list[i] >= 30}) >= 2

\* if accept: ... return / elif iteration < 1: ... continue / else: ... return
main_decision(it, list) ==
    IF main_accept(list) THEN "accepted"
    ELSE IF it < 1 THEN "revise"
    ELSE "completed_max_iterations"

\* the list create_council_agents returns has 3 agents
CreatedCouncil == 3

\* what main leaves alone
main_aside_vars ==
    << council, max_iterations, orphans, result, accept_vars, extract_vars,
       scrape_vars >>

\* the state at "query = message.content", with the orchestrator of the
\* session, made by start
InitMain ==
    /\ council = CreatedCouncil
    /\ max_iterations = DefaultMaxIterations
    /\ pc = "loop"
    /\ iteration = 0
    /\ research_report = NoReport
    /\ all_reviews = <<>>
    /\ scores = <<>>
    /\ producer = IdleProducer
    /\ tasks = <<>>
    /\ orphans = <<>>
    /\ result = NoResult
    /\ MainIdle
    /\ AcceptIdle
    /\ ExtractIdle
    /\ ScrapeIdle

\* the while test and phase 1 up to the suspension in asyncio.to_thread
MainLoopTest ==
    /\ pc = "loop"
    /\ IF main_loop_test(iteration)
       THEN /\ producer' =
                  [st |-> "running",
                   prompt |->
                       IF iteration = 0
                       THEN QueryPrompt(Query)
                       ELSE create_revision_prompt(
                                Query, research_report,
                                synthesize_feedback(all_reviews[Len(all_reviews)]))]
            /\ messages' = Append(messages, "Phase 1")
            /\ pc' = "producing"
       ELSE /\ pc' = "returned"
            /\ UNCHANGED << producer, messages >>
    /\ UNCHANGED << iteration, research_report, all_reviews, scores, tasks,
                    main_reviews, main_aside_vars >>

\* asyncio.to_thread(orchestrator.council[i].run, research_report)
MainThread(report) == [st |-> "running", arg |-> report, out |-> ErrorText]

\* researcher.run returns: the report is shown, phase 2 starts and the first
\* reviewer is invoked
MainProducerReturn ==
    /\ pc = "producing"
    /\ producer.st = "running"
    /\ producer' = [producer EXCEPT !.st = "idle"]
    /\ research_report' = Report(iteration + 1)
    /\ messages' = messages \o << "Research Complete", "Phase 2" >>
    /\ main_reviews' = <<>>
    /\ tasks' = << MainThread(research_report') >>
    /\ pc' = "reviewing"
    /\ UNCHANGED << iteration, all_reviews, scores, main_aside_vars >>

\* variant: the failure swallowed as in _conduct_research, the error text
\* reviewed as the report
MainProducerRaise_swallowed ==
    /\ pc = "producing"
    /\ producer.st = "running"
    /\ producer' = [producer EXCEPT !.st = "raised"]
    /\ research_report' = ErrorReport(iteration + 1)
    /\ messages' = messages \o << "Research Complete", "Phase 2" >>
    /\ main_reviews' = <<>>
    /\ tasks' = << MainThread(research_report') >>
    /\ pc' = "reviewing"
    /\ UNCHANGED << iteration, all_reviews, scores, main_aside_vars >>

\* researcher.run raises: the failure is reported and main returns
MainProducerRaise ==
    /\ pc = "producing"
    /\ producer.st = "running"
    /\ producer' = [producer EXCEPT !.st = "raised"]
    /\ messages' =
          Append(messages,
                 IF iteration = 0 THEN "Research failed" ELSE "Revision failed")
    /\ pc' = "returned"
    /\ UNCHANGED << iteration, research_report, all_reviews, scores, tasks,
                    main_reviews, main_aside_vars >>

\* variant: the default name of the workflow's except clause
MainSentinel_anonymous(i) ==
    [reviewer |-> DefaultNames[i],
     review_text |-> ErrorText,
     score |-> 0,
     recommendation |-> "ERROR"]

\* the review of the except clause of the reviewer loop
MainSentinel(i) ==
    [reviewer |-> reviewer_names[i],
     review_text |-> ErrorText,
     score |-> 0,
     recommendation |-> "ERROR"]

\* the thread of reviewer i has ended: its review is appended, parsed from
\* its text or the sentinel, and the next reviewer, if any, is invoked
MainReviewResumes ==
    /\ pc = "reviewing"
    /\ Len(main_reviews) < Len(reviewer_names)
    /\ LET i == Len(main_reviews) + 1
       IN  /\ tasks[i].st \in {"done", "raised"}
           /\ main_reviews' =
                 Append(main_reviews,
                        IF tasks[i].st = "done"
                        THEN ParsedReview(i, tasks[i].out)
                        ELSE MainSentinel(i))
           /\ tasks' =
                 IF i < Len(reviewer_names)
                 THEN Append(tasks, MainThread(research_report))
                 ELSE tasks
    /\ UNCHANGED << pc, iteration, research_report, all_reviews, scores,
                    producer, messages, main_aside_vars >>

\* after the reviewer loop: scores, and the Round appended to all_reviews
MainRecordRound ==
    /\ pc = "reviewing"
    /\ Len(main_reviews) = Len(reviewer_names)
    /\ RecordRound(main_reviews)
    /\ UNCHANGED << iteration, research_report, producer, tasks, main_reviews,
                    messages, main_aside_vars >>

\* phase 3: the reviews and the decision are shown; main returns, with the
\* PDF or the failure to make it, or goes on to the revision
MainDecide(pdf_ok) ==
    /\ pc = "deciding"
    /\ LET decision == main_decision(iteration, scores)
       IN  IF decision = "revise"
           THEN /\ messages' =
                      messages \o << "Council Review Results", "Revision Requested" >>
                /\ iteration' = iteration + 1
                /\ pc' = "loop"
           ELSE /\ messages' =
                      messages \o
                      << "Council Review Results",
                         IF decision = "accepted" THEN "Research Accepted"
                         ELSE "Maximum Iterations Reached",
                         IF pdf_ok THEN "PDF" ELSE "PDF generation failed" >>
                /\ iteration' = iteration
                /\ pc' = "returned"
    /\ UNCHANGED << research_report, all_reviews, scores, producer, tasks,
                    main_reviews, main_aside_vars >>

NextMain ==
    \/ MainLoopTest
    \/ MainProducerReturn
    \/ MainProducerRaise
    \/ \E i \in Agents, body \in ReviewBodies : ReviewerReturn(i, body)
    \/ \E i \in Agents : ReviewerRaise(i)
    \/ MainReviewResumes
    \/ MainRecordRound
    \/ \E pdf_ok \in BOOLEAN : MainDecide(pdf_ok)

SpecMain == InitMain /\ [][NextMain]_vars

\* -------------------------------------------------------------------- claims
Returned == pc = "returned"
LastRound == all_reviews[Len(all_reviews)]
IsSentinel(review) == review.score = 0 /\ review.recommendation = "ERROR"

\* C1: _evaluate_acceptance(scores) returns true exactly when at least 2
\* entries of scores are >= 3.0, whatever the length of the list.
C1_AcceptIffQuorum ==
    ret_accept.returned =>
        (ret_accept.value <=>
            Cardinality({i \in DOMAIN arg_scores : arg_scores[i] >= 30}) >= 2)

C1_Witness ==
    /\ ret_accept.returned
    /\ ret_accept.value
    /\ Len(arg_scores) = 3
    /\ \E i \in DOMAIN arg_scores : arg_scores[i] < 30

\* C2: once researcher.run has raised in a round, no result is returned, no
\* reviewer is invoked on the outcome of that attempt and no Round is
\* recorded for it.
C2_ProducerFailureIsFatal ==
    producer.st = "raised" =>
        /\ result = NoResult
        /\ \A i \in DOMAIN tasks : tasks[i].arg # research_report
        /\ Len(all_reviews) <= iteration

\* C3: when the fan-out of a round is over and a reviewer raised, the review
\* of that reviewer is a sentinel and the review of every reviewer that
\* returned carries that reviewer's own text and what is parsed from it.
C3_FailureIsolated ==
    (pc = "deciding" /\ \E j \in Agents : tasks[j].st = "raised") =>
        \A i \in Agents :
            /\ i \in DOMAIN LastRound.reviews
            /\ tasks[i].st = "raised" => IsSentinel(LastRound.reviews[i])
            /\ tasks[i].st = "done" =>
                  /\ LastRound.reviews[i].review_text = tasks[i].out
                  /\ LastRound.reviews[i].score = extract_score(tasks[i].out.body)
                  /\ LastRound.reviews[i].recommendation =
                        extract_recommendation(tasks[i].out.body)

\* C4: a run whose every round is rejected returns after exactly
\* max_iterations rounds with status completed_max_iterations.
C4_ExhaustedAfterK ==
    (Returned /\ \A r \in DOMAIN all_reviews :
                    Cardinality({i \in DOMAIN all_reviews[r].scores :
                                    all_reviews[r].scores[i] >= 30}) < 2) =>
        /\ result.status = "completed_max_iterations"
        /\ result.iterations = max_iterations
        /\ Len(result.all_reviews) = max_iterations

C4_Witness ==
    /\ Returned
    /\ max_iterations >= 2
    /\ result.status = "completed_max_iterations"
    /\ Len(result.all_reviews) = max_iterations

\* C5: execute_research returns, and at no time has it run more than
\* max_iterations rounds or invoked the producer more than max_iterations
\* times.
C5_Terminates ==
    /\ <>Returned
    /\ [](Len(all_reviews) <= max_iterations /\ research_report.inv <= max_iterations)

C5_Witness ==
    /\ Returned
    /\ research_report.kind = "Error revising research"
    /\ \E i \in Agents : tasks[i].st = "raised"

\* C6: when the fan-out of a round is over, the review at position i is made
\* from the response of council agent i.
C6_OrderedByIdentity ==
    pc = "deciding" =>
        \A i \in Agents :
            /\ i \in DOMAIN LastRound.reviews
            /\ LastRound.reviews[i].review_text.from = i

\* C7: a reviewer runs only when the producer of its round has returned, a
\* round is recorded and decided only when none of its reviewers still runs,
\* and the producer of the next round runs only after the decision.
C7_PhasesOrdered ==
    /\ \A i \in DOMAIN tasks :
          tasks[i].st = "running" =>
              /\ producer.st # "running"
              /\ tasks[i].arg = research_report
              /\ research_report.inv = iteration + 1
    /\ \A r \in DOMAIN orphans : orphans[r] = 0
    /\ pc \in {"deciding", "loop", "producing", "returned"} =>
          \A i \in DOMAIN tasks : tasks[i].st # "running"
    /\ producer.st = "running" => Len(all_reviews) = iteration

\* C8: every recorded Round has as many reviews and scores as there are
\* council agents.
C8_RoundHasNReviews ==
    \A r \in DOMAIN all_reviews :
        /\ Len(all_reviews[r].reviews) = council
        /\ Len(all_reviews[r].scores) = council

\* C9: in a returned result, iterations is between 1 and max_iterations, the
\* history has iterations Rounds, and the k-th Round has iteration index k.
C9_IterationsAndHistory ==
    Returned =>
        /\ 1 <= result.iterations
        /\ result.iterations <= max_iterations
        /\ Len(result.all_reviews) = result.iterations
        /\ \A k \in DOMAIN result.all_reviews : result.all_reviews[k].iteration = k

C9_Witness ==
    /\ Returned
    /\ result.iterations = 2
    /\ result.status = "accepted"

\* C10: a result with status completed_max_iterations holds the artifact of
\* the last round, and its final_scores are the scores of the last Round,
\* whose reviews were written about that artifact.
C10_ExhaustedUsesLastRound ==
    (Returned /\ result.status = "completed_max_iterations") =>
        LET last == result.all_reviews[Len(result.all_reviews)]
        IN  /\ result.research_report.inv = max_iterations
            /\ last.iteration = max_iterations
            /\ result.final_scores = last.scores
            /\ result.final_scores = ScoresOf(last.reviews)
            /\ \A i \in DOMAIN last.reviews :
                  \/ IsSentinel(last.reviews[i])
                  \/ last.reviews[i].review_text.of = result.research_report.inv
            /\ \A i \in DOMAIN tasks : tasks[i].arg = result.research_report

C10_Witness ==
    /\ Returned
    /\ result.status = "completed_max_iterations"
    /\ Len(result.all_reviews) = 2
    /\ result.all_reviews[1].scores # result.final_scores
    /\ result.research_report.kind = "report"


\* the number of scores of a list that are >= 3.0
Passing(list) == Cardinality({i \in DOMAIN list : list[i] >= 30})

\* C11: when the scores of round k are accepted, the next step of
\* execute_research returns status accepted with iterations = k, the artifact
\* reviewed in round k and a history that ends with round k; once it has
\* returned, no producer or reviewer invocation is started.
C11_AcceptedAtOnce ==
    /\ [][(pc = "deciding" /\ Passing(scores) >= 2 /\ pc' # pc) =>
             /\ pc' = "returned"
             /\ result'.status = "accepted"
             /\ result'.iterations = Len(all_reviews)
             /\ result'.iterations = LastRound.iteration
             /\ result'.research_report = research_report
             /\ result'.research_report.inv = LastRound.iteration
             /\ \A i \in DOMAIN LastRound.reviews :
                   LastRound.reviews[i].review_text.of = research_report.inv
             /\ result'.all_reviews = all_reviews
             /\ producer' = producer
             /\ tasks' = tasks]_vars
    /\ [][Returned =>
             /\ pc' = pc
             /\ result' = result
             /\ producer' = producer
             /\ tasks' = tasks]_vars

C11_Witness ==
    /\ Returned
    /\ result.status = "accepted"
    /\ result.iterations = 1
    /\ council = 3
    /\ \E i \in DOMAIN result.final_scores : result.final_scores[i] < 30


\* the producer is running on a revision prompt, built from LastRound
Revising == producer.st = "running" /\ iteration >= 1

\* C12: in every recorded Round the review at position i carries the display
\* label of reviewer i: Methodology, Comprehensiveness, Clarity in this order.
C12_FixedLabels ==
    \A r \in DOMAIN all_reviews :
        \A i \in DOMAIN all_reviews[r].reviews :
            all_reviews[r].reviews[i].reviewer =
                << "Dr. Sarah Chen (Methodology)",
                   "Prof. James Rodriguez (Comprehensiveness)",
                   "Dr. Emily Thompson (Clarity)" >>[i]

\* C13: the priorities of a revision prompt hold one CRITICAL item per review
\* of the previous Round whose score is below 3.0, sentinels included.
C13_CriticalBelowThreshold ==
    Revising =>
        Len(producer.prompt.priorities_text) =
            Cardinality({i \in DOMAIN LastRound.reviews :
                            LastRound.reviews[i].score < 30})

\* C14: a revision prompt embeds the query, the report of the previous round
\* and the directive built from the reviews of the previous Round.
C14_PromptEmbedsPriorArtifact ==
    Revising =>
        /\ producer.prompt.query = Query
        /\ producer.prompt.priorities_text = synthesize_feedback(LastRound).priorities
        /\ "original_report" \in DOMAIN producer.prompt
        /\ producer.prompt.original_report = research_report

\* C15: in a revision prompt the feedback text of the category of reviewer i
\* is "None" when no "Areas for Improvement" section can be extracted from
\* the review of reviewer i, and the extracted section otherwise.
C15_NoneWhenEmpty ==
    Revising =>
        \A i \in DOMAIN LastRound.reviews :
            LET section ==
                    extract_section(LastRound.reviews[i].review_text.body,
                                    "Areas for Improvement")
                text ==
                    IF i = 1 THEN producer.prompt.methodology_text
                    ELSE IF i = 2 THEN producer.prompt.comprehensiveness_text
                    ELSE producer.prompt.clarity_text
            IN  text = IF section = "" THEN << "None" >> ELSE << section >>


C17_NoAcceptedError ==
    (Returned /\ result.status = "accepted") =>
        result.research_report.kind = "report"

\* C18: when the producer is asked for a revision, every score of the
\* previous Round is below 3.0.
C18_RevisionOnlyWhenAllBelow ==
    Revising => \A i \in DOMAIN LastRound.scores : LastRound.scores[i] < 30


\* C19: with max_iterations = 2, after every round execute_research stops or
\* continues, and ends with the status, that the chat handler main decides
\* for the same iteration and scores, and both leave the loop alike.
C19_SameDecision ==
    /\ [][(max_iterations = 2 /\ pc = "deciding" /\ pc' # pc) =>
             IF main_decision(iteration, scores) = "revise"
             THEN pc' = "loop" /\ iteration' = iteration + 1
             ELSE /\ pc' = "returned"
                  /\ result'.status = main_decision(iteration, scores)]_vars
    /\ [][(max_iterations = 2 /\ pc = "loop" /\ pc' # pc) =>
             (main_loop_test(iteration) <=> pc' = "producing")]_vars

C19_Witness ==
    /\ Returned
    /\ max_iterations = 2
    /\ council = 3
    /\ result.iterations = 2
    /\ result.status = main_decision(iteration, scores)
    /\ result.status = "completed_max_iterations"

\* C20: a step either leaves the history as it is or, at the end of a review
\* phase, appends one Round to it; every round appends exactly one.
C20_AppendOnly ==
    /\ [][\/ all_reviews' = all_reviews
          \/ /\ pc = "reviewing"
             /\ pc' = "deciding"
             /\ Len(all_reviews') = Len(all_reviews) + 1
             /\ SubSeq(all_reviews', 1, Len(all_reviews)) = all_reviews]_vars
    /\ [](Len(all_reviews) =
             IF pc \in {"deciding", "returned"} THEN iteration + 1 ELSE iteration)

C20_Witness ==
    /\ pc = "deciding"
    /\ Len(all_reviews) = 2
    /\ producer.prompt.kind = "revision"
    /\ all_reviews[1].scores # all_reviews[2].scores


\* ret_review is a Review parsed from arg_text
Parsed == \E i \in DOMAIN reviewer_names : ret_review.reviewer = reviewer_names[i]
\* ret_review is a Review of the default list
Defaulted == \E i \in 1..DefaultReviews : ret_review.reviewer = DefaultNames[i]
\* the lines of arg_text with a score label followed by digits
OverallOver5 ==
    {j \in DOMAIN arg_text :
        arg_text[j].k = "OverallScore" /\ arg_text[j].v >= 0 /\ arg_text[j].slash}
OverallPlain ==
    {j \in DOMAIN arg_text : arg_text[j].k = "OverallScore" /\ arg_text[j].v >= 0}
AnyOver5 ==
    {j \in DOMAIN arg_text :
        /\ arg_text[j].k \in {"OverallScore", "Score"}
        /\ arg_text[j].v >= 0
        /\ arg_text[j].slash}
\* the score is the value of the leftmost line of hits, capped at 5.0
ScoreIsLeftmostOf(hits) ==
    \E j \in hits :
        /\ \A h \in hits : j <= h
        /\ ret_review.score = IF arg_text[j].v > 50 THEN 50 ELSE arg_text[j].v

\* C21: the score of every Review, parsed or default, lies in [0, 5.0]; a
\* parsed value above 5 gives 5.0, and a text in which no score pattern
\* matches gives 0.0.
C21_ScoreInRange ==
    (Parsed \/ Defaulted) =>
        /\ 0 <= ret_review.score
        /\ ret_review.score <= 50
        /\ (Parsed /\ OverallPlain = {} /\ AnyOver5 = {}) => ret_review.score = 0
        /\ (/\ Parsed
            /\ OverallPlain \cup AnyOver5 # {}
            /\ \A j \in OverallPlain \cup AnyOver5 : arg_text[j].v > 50) =>
               ret_review.score = 50

C21_Witness ==
    /\ Parsed
    /\ ret_review.score = 50
    /\ \E j \in DOMAIN arg_text : arg_text[j] = ScoreLine(-30, TRUE)
    /\ \E j \in DOMAIN arg_text : arg_text[j] = ScoreLine(90, TRUE)

\* C22 as stated: the score is that of the first pattern that matches in the
\* order "Overall Score: X / 5", "Score: X/5", "Overall Score: X", capped,
\* and 0.0 when none matches.
C22_ScoreFirstOverPlainOverall ==
    Parsed =>
        IF OverallOver5 # {} THEN ScoreIsLeftmostOf(OverallOver5)
        ELSE IF AnyOver5 # {} THEN ScoreIsLeftmostOf(AnyOver5)
        ELSE IF OverallPlain # {} THEN ScoreIsLeftmostOf(OverallPlain)
        ELSE ret_review.score = 0

\* C22 as amended: the order is "Overall Score: X / 5", "Overall Score: X",
\* "Score: X/5"; "Overall Score: 4.2 / 5" gives 4.2, "Score: 9/5" gives 5.0
\* and a text with no pattern gives 0.0.
C22_PatternOrder ==
    Parsed =>
        /\ IF OverallOver5 # {} THEN ScoreIsLeftmostOf(OverallOver5)
           ELSE IF OverallPlain # {} THEN ScoreIsLeftmostOf(OverallPlain)
           ELSE IF AnyOver5 # {} THEN ScoreIsLeftmostOf(AnyOver5)
           ELSE ret_review.score = 0
        /\ arg_text = << OverallScoreLine(42, TRUE) >> => ret_review.score = 42
        /\ arg_text = << ScoreLine(90, TRUE) >> => ret_review.score = 50
        /\ arg_text = << ProseLine >> => ret_review.score = 0

C22_Witness ==
    /\ Parsed
    /\ arg_text = << ScoreLine(90, TRUE), OverallScoreLine(30, FALSE) >>
    /\ ret_review.score = 30

\* the lines "Recommendation: ACCEPT" / "Recommendation: REVISE" of arg_text,
\* in upper or in lower case
AcceptTokens ==
    {j \in DOMAIN arg_text :
        arg_text[j] \in {RecommendationLine("ACCEPT"),
                         LowerCase(RecommendationLine("ACCEPT"))}}
ReviseTokens ==
    {j \in DOMAIN arg_text :
        arg_text[j] \in {RecommendationLine("REVISE"),
                         LowerCase(RecommendationLine("REVISE"))}}

\* C23: a Review parsed from a text has recommendation ACCEPT or REVISE only
\* if the text holds that token, in whatever case, UNKNOWN exactly when it
\* holds neither, and never ERROR; a Review with recommendation ERROR is one
\* of the default list, and every Review of the default list has score 0.0.
C23_RecommendationTokens ==
    /\ Parsed =>
          /\ ret_review.recommendation \in {"ACCEPT", "REVISE", "UNKNOWN"}
          /\ ret_review.recommendation = "ACCEPT" => AcceptTokens # {}
          /\ ret_review.recommendation = "REVISE" => ReviseTokens # {}
          /\ ret_review.recommendation = "UNKNOWN" <=>
                (AcceptTokens = {} /\ ReviseTokens = {})
    /\ ret_review.recommendation = "ERROR" => Defaulted
    /\ Defaulted => (ret_review.score = 0 /\ ret_review.recommendation = "ERROR")

C23_Witness ==
    /\ Parsed
    /\ arg_text = << RecommendationLine("ERROR"),
                     LowerCase(RecommendationLine("ACCEPT")) >>
    /\ ret_review.recommendation = "ACCEPT"

\* C24: a call of scrape_webpage with extract_links=False returns no links,
\* and a successful call with extract_links=True returns the links extracted
\* from the page, whatever earlier calls left in the cache.
C24_LinksFollowFlag ==
    scrape_arg # NoCall =>
        /\ ~scrape_arg.extract_links => scrape_ret.links = <<>>
        /\ (scrape_arg.extract_links /\ scrape_ret.status = "ok") =>
              scrape_ret.links = ExtractLinks(Page(scrape_arg.url))

\* C25: when the fan-out of a round is over and a reviewer invocation of the
\* round raised, the round has N scores, all of them 0.0, and it is rejected.
C25_RaiseZeroesRound ==
    (pc = "deciding" /\ \E j \in Agents : tasks[j].st = "raised") =>
        /\ Len(scores) = council
        /\ \A i \in DOMAIN scores : scores[i] = 0
        /\ ~evaluate_acceptance(scores)

\* C26: in a returned result the status is accepted exactly when at least 2
\* of final_scores are >= 3.0, and final_scores are the scores of the last
\* Round of all_reviews, whose reviews are those of the round run on the
\* returned research_report.
C26_StatusMatchesFinalScores ==
    Returned =>
        LET last == result.all_reviews[Len(result.all_reviews)]
        IN  /\ result.status = "accepted" <=> Passing(result.final_scores) >= 2
            /\ result.status \in {"accepted", "completed_max_iterations"}
            /\ result.final_scores = last.scores
            /\ last.scores = [i \in DOMAIN last.reviews |-> last.reviews[i].score]
            /\ last.iteration = result.research_report.inv
            /\ \A i \in DOMAIN last.reviews :
                  \/ IsSentinel(last.reviews[i])
                  \/ last.reviews[i].review_text.of = result.research_report.inv
            /\ \A i \in DOMAIN tasks : tasks[i].arg = result.research_report

C26_Witness ==
    /\ Returned
    /\ result.status = "completed_max_iterations"
    /\ Passing(result.final_scores) = 1
    /\ Passing(result.all_reviews[1].scores) = 0
    /\ result.research_report.inv = 2

\* C27: the producer runs only while no reviewer thread runs, it is invoked
\* at most max_iterations times, and the reviewer threads of a round are one
\* per council agent, each given the artifact of that round.
C27_OneProducerPerRound ==
    /\ producer.st = "running" =>
          /\ \A i \in DOMAIN tasks : tasks[i].st \notin {"running", "left"}
          /\ \A r \in DOMAIN orphans : orphans[r] = 0
    /\ research_report.inv <= max_iterations
    /\ Len(orphans) * council <= max_iterations * council
    /\ tasks # <<>> =>
          /\ DOMAIN tasks = Agents
          /\ \A i \in Agents : tasks[i].arg.inv = Len(orphans) + (IF pc = "reviewing" THEN 1 ELSE 0)

\* C28: the while test never fails: every return of execute_research is one
\* of the returns inside the loop, taken from the decision of a round, and
\* the return after the loop is never taken.
C28_FallThroughUnreachable ==
    /\ [](pc = "loop" => iteration < max_iterations)
    /\ [][(pc # "returned" /\ pc' = "returned") =>
             /\ pc = "deciding"
             /\ result'.iterations = iteration + 1
             /\ result'.final_scores = scores
             /\ scores # <<>>]_vars

C28_Witness ==
    /\ Returned
    /\ max_iterations = 1
    /\ result.status = "completed_max_iterations"
    /\ result.iterations = 1

\* the messages that report an outcome of the workflow
OutcomeMessages == {"Research Accepted", "Maximum Iterations Reached"}

\* C29: in main, once researcher.run has raised, in the initial research or
\* in the revision, main has returned after reporting the failure: no
\* reviewer is invoked for the failed attempt or afterwards, no Round is
\* appended for it, and no acceptance or max-iterations outcome is reported.
C29_MainProducerFailureEnds ==
    /\ [](producer.st = "raised" =>
             /\ pc = "returned"
             /\ messages[Len(messages)] =
                   (IF iteration = 0 THEN "Research failed" ELSE "Revision failed")
             /\ \A m \in DOMAIN messages : messages[m] \notin OutcomeMessages
             /\ Len(all_reviews) = iteration
             /\ research_report.inv = iteration
             /\ \A i \in DOMAIN tasks :
                   tasks[i].st # "running" /\ tasks[i].arg.inv = iteration)
    /\ [][producer.st = "raised" =>
             (tasks' = tasks /\ all_reviews' = all_reviews /\ messages' = messages)]_vars
    /\ [][(producer.st = "running" /\ producer'.st = "raised") =>
             (tasks' = tasks /\ all_reviews' = all_reviews /\ pc' = "returned")]_vars

C29_Witness ==
    /\ producer.st = "raised"
    /\ producer.prompt.kind = "revision"
    /\ Len(all_reviews) = 1
    /\ messages[Len(messages)] = "Revision failed"

\* C30: in main at most one reviewer runs at a time and reviewer i runs only
\* when the reviews of the reviewers before it are in; in every Round there
\* are exactly 3 reviews, the review at position i carries the display name
\* of reviewer i and is either the sentinel (score 0.0, ERROR) or parsed from
\* reviewer i's own text about the report of that round; a reviewer that
\* raised has the sentinel and a reviewer that returned has its own parsed
\* result, whatever the others did.
C30_MainIsolatesReviewers ==
    /\ \A i \in DOMAIN tasks :
          tasks[i].st = "running" =>
              /\ i = Len(tasks)
              /\ Len(main_reviews) = i - 1
              /\ tasks[i].arg = research_report
    /\ Len(tasks) <= Len(main_reviews) + 1
    /\ \A r \in DOMAIN all_reviews :
          /\ Len(all_reviews[r].reviews) = 3
          /\ Len(all_reviews[r].scores) = 3
          /\ \A i \in 1..3 :
                LET review == all_reviews[r].reviews[i]
                IN  /\ review.reviewer =
                          << "Dr. Sarah Chen (Methodology)",
                             "Prof. James Rodriguez (Comprehensiveness)",
                             "Dr. Emily Thompson (Clarity)" >>[i]
                    /\ \/ IsSentinel(review)
                       \/ /\ review.review_text.from = i
                          /\ review.review_text.of = r
                          /\ review.score = extract_score(review.review_text.body)
                          /\ review.recommendation =
                                extract_recommendation(review.review_text.body)
    /\ pc = "deciding" =>
          /\ Len(tasks) = 3
          /\ \A i \in 1..3 :
                /\ tasks[i].st = "raised" => IsSentinel(LastRound.reviews[i])
                /\ tasks[i].st = "done" =>
                      /\ LastRound.reviews[i].review_text = tasks[i].out
                      /\ ~IsSentinel(LastRound.reviews[i])

C30_Witness ==
    /\ pc = "deciding"
    /\ tasks[1].st = "raised"
    /\ tasks[2].st = "done"
    /\ tasks[3].st = "done"
    /\ LastRound.reviews[1].reviewer = reviewer_names[1]
    /\ Passing(scores) = 2

====
